---- MODULE Spec2Model ----
(***************************************************************************)
(* A model of the tool registration and dispatch code of mcp-server-qdrant. *)
(* The source tree holds three server entry points, each a program of its   *)
(* own; the variable `server` says which one a behaviour runs:              *)
(*   "custom"   custom_server.py  QdrantMCPServer(Server): register_tool,   *)
(*              handle_list_tool, handle_tool_call, schema derivation       *)
(*   "fastmcp"  mcp_server.py     QdrantMCPServer(FastMCP): setup_tools and *)
(*              the tool functions, over the connector of qdrant.py         *)
(*   "legacy"   server.py         main() and serve(): the hard-wired        *)
(*              two-tool server                                             *)
(* Spec runs the custom and the legacy server, SpecFastMCP the FastMCP       *)
(* server with each tool call as one step, SpecCalls the FastMCP server      *)
(* with its tool calls in flight, one step per await of the connector.       *)
(***************************************************************************)
EXTENDS Naturals, Sequences, FiniteSets, Bags, TLC

VARIABLES
    server,          \* which entry point runs: "custom", "fastmcp", "legacy"
    funcs,           \* custom: the signatures of the functions the client defines
    closure,         \* custom: the decorator last returned by register_tool (its cells)
    _tools,          \* custom: QdrantMCPServer._tools
    _tool_handlers,  \* custom: QdrantMCPServer._tool_handlers
    registrations,   \* custom: history of the tools built by wrapper, in call order
    qdrant_settings, \* the configuration: location, local_path, collection_name, read_only
    tools,           \* fastmcp: the tools added by setup_tools, in add_tool order
    collections,     \* fastmcp, legacy: the vector store, collection name -> points
    collaborators,   \* fastmcp, legacy: the collaborators constructed at boot
    calls,           \* fastmcp: the bag of tool calls in flight, each suspended on an await
    outcome          \* what the last operation returned or raised

vars == <<server, funcs, closure, _tools, _tool_handlers, registrations,
          qdrant_settings, tools, collections, collaborators, calls, outcome>>

----------------------------------------------------------------------------
(* Bounds of the model *)

MaxTools == 2
MaxPoints == 2

(* Python's None, for cells that hold a string or None *)
None == "None"

(* The texts callers send: information to store, queries *)
LongText == "long"
Texts == {"fox", LongText}

(* The contents stored through mcp_server.py: the texts, and one that is *)
(* exactly as long as the truncation limit                              *)
EdgeText == "edge"
Contents == Texts \cup {EdgeText}

(* len() of a text: the long text is one character over the truncation *)
(* limit, the edge text exactly at it                                  *)
TextLen(t) == IF t = LongText THEN 201 ELSE IF t = EdgeText THEN 200 ELSE 3

----------------------------------------------------------------------------
(* custom_server.py: the functions a client registers *)

FuncNames == {"tool_one", "tool_two"}
CustomName == "custom_name"
ParamOrder == <<"self", "param1", "param2">>
ParamNames == {ParamOrder[i] : i \in DOMAIN ParamOrder}

(* A signature says of each parameter name whether the function declares it, *)
(* and if so whether it has a default value.                                  *)
Signatures == [ParamNames -> {"absent", "required", "default"}]

(* tool_one is written like a method, declaring self and then any of the    *)
(* other parameters, with or without defaults, or as a plain function of    *)
(* param1 at most: tool_one(param1: str) of tests/test_custom_server.py:     *)
(* 62-65, the same with a default, and tool_one(). tool_two is the function  *)
(* of tests/test_custom_server.py:67-70: tool_two(param1: int, param2: bool = True). *)
MethodSignatures == {s \in Signatures : s["self"] = "required"}
PlainSignatures ==
    {s \in Signatures : s["self"] = "absent" /\ s["param2"] = "absent"}
ToolOneSignatures == MethodSignatures \cup PlainSignatures
ToolTwoSignature ==
    [p \in ParamNames |-> IF p = "param1" THEN "required"
                          ELSE IF p = "param2" THEN "default" ELSE "absent"]

(* The annotation of a parameter; "Any" stands for no annotation. *)
DeclaredType(fname, p) ==
    IF p = "self" THEN "Any"
    ELSE IF fname = "tool_one" THEN (IF p = "param1" THEN "str" ELSE "list")
    ELSE (IF p = "param1" THEN "int" ELSE "bool")

(* tool_one documents its parameters with :param lines, tool_two has a *)
(* docstring without any.                                              *)
Documented(fname, p) == fname = "tool_one"

(* inspect.signature(func).parameters, in declaration order *)
Parameters(fname) ==
    SelectSeq(ParamOrder, LAMBDA p : funcs[fname][p] # "absent")

RequiredParams(fname) == {p \in ParamNames : funcs[fname][p] = "required"}
DeclaredParams(fname) == {p \in ParamNames : funcs[fname][p] # "absent"}


(* JSON Schema type of an annotation (custom_server.py:106-114) *)
JsonType(t) ==
    IF t \in {"int", "float"} THEN "number"
    ELSE IF t = "bool" THEN "boolean"
    ELSE IF t = "list" THEN "array"
    ELSE "string"

(* One entry of `properties`: the schema of a parameter *)
ParamSchema(fname, p) ==
    [name |-> p,
     type |-> JsonType(DeclaredType(fname, p)),
     has_default |-> funcs[fname][p] = "default",
     has_description |-> Documented(fname, p)]

SchemaParamsKeepingSelf(fname) == Parameters(fname)

(* The parameters the loop does not skip *)
SchemaParams(fname) == SelectSeq(Parameters(fname), LAMBDA p : p # "self")

(* QdrantMCPServer.__parse_function_parameters: `properties` keeps the     *)
(* insertion order of the dict, `required` is the list the loop appends to. *)
ParseFunctionParameters(fname) ==
    LET ps == SchemaParams(fname)
    IN  [type |-> "object",
         properties |-> [i \in 1..Len(ps) |-> ParamSchema(fname, ps[i])],
         required |-> SelectSeq(ps, LAMBDA p : funcs[fname][p] # "default")]

(* A schema the caller passes as input_schema instead of having it derived *)
ExplicitSchema ==
    [type |-> "object",
     properties |-> <<[name |-> "explicit", type |-> "string",
                       has_default |-> FALSE, has_description |-> FALSE]>>,
     required |-> <<"explicit">>]

Descriptions == {"Test tool"}

(* The ways the client calls register_tool: bare, with a name, and with a *)
(* name and a schema of its own                                           *)
RegisterInputs ==
    {[name |-> None, input_schema |-> <<>>],
     [name |-> CustomName, input_schema |-> <<>>],
     [name |-> CustomName, input_schema |-> <<ExplicitSchema>>]}

----------------------------------------------------------------------------
(* Outcomes of operations *)

NoMapping == [k \in {} |-> "fox"]
NullArguments == [null |-> TRUE, map |-> NoMapping]

(* name and arguments are those of the call the outcome belongs to, entries *)
(* what the connector's search returned to the handler, failed the          *)
(* collaborator operation that raised, supplied the collection_name the     *)
(* request carried and issued the operations the call issued on the vector  *)
(* store, in order                                                          *)
NoOutcome ==
    [op |-> "none", kind |-> "none", error |-> "", message |-> <<>>,
     content |-> <<>>, listed |-> <<>>, invoked |-> None,
     fn |-> None, parsed |-> <<>>, name |-> None, arguments |-> NullArguments,
     entries |-> <<>>, failed |-> None, supplied |-> None, issued |-> <<>>]

Returned(op) == [NoOutcome EXCEPT !.op = op, !.kind = "return"]
Raised(op, error, message) ==
    [NoOutcome EXCEPT !.op = op, !.kind = "raise", !.error = error,
                      !.message = message]

(* A text content item *)
Text(kind, text, extra) == [kind |-> kind, text |-> text, extra |-> extra]

(* The arguments of a tool call: None, or a mapping from some keys to texts *)
Arguments(keys, values) ==
    {NullArguments} \cup
    {[null |-> FALSE, map |-> m] : m \in UNION {[K -> values] : K \in SUBSET keys}}


----------------------------------------------------------------------------
(* custom_server.py: QdrantMCPServer(Server) *)

(* The names a client gives to register_tool and to handle_tool_call *)
ToolNames == FuncNames \cup {CustomName}
CallKeys == {"param1", "bogus"}

(* register_tool(description=..., name=..., input_schema=...): returns the  *)
(* decorator, a closure over the cells name and input_schema. Nothing is    *)
(* registered yet. An absent input_schema is the empty sequence. given_name  *)
(* and given_schema keep the arguments of this call, which the cells forget  *)
(* once wrapper has assigned to them.                                        *)
RegisterTool(description, name, input_schema) ==
    /\ server = "custom"
    /\ closure' = <<[description |-> description, name |-> name,
                     input_schema |-> input_schema,
                     given_name |-> name, given_schema |-> input_schema]>>
    /\ outcome' = Returned("register_tool")
    /\ UNCHANGED <<collaborators, calls, server, funcs, _tools,
                   _tool_handlers, registrations, qdrant_settings, tools,
                   collections>>

(* The tool wrapper(fn) builds from the cells, after it has filled the empty *)
(* ones (custom_server.py:44-59).                                            *)
WrapperName(c, fn) == IF c.name = None THEN fn ELSE c.name
WrapperSchema(c, fn) ==
    IF c.input_schema = <<>> THEN ParseFunctionParameters(fn)
    ELSE c.input_schema[1]

(* self._tool_handlers[name] = fn *)
SetHandler(handlers, name, fn) ==
    [n \in DOMAIN handlers \cup {name} |-> IF n = name THEN fn ELSE handlers[n]]

PrependTool(ts, tool) == <<tool>> \o ts

(* self._tools.append(tool) *)
AppendTool(ts, tool) == Append(ts, tool)

(* decorator(func) with a function: wrapper(func). The assignments to the    *)
(* nonlocal name and input_schema stay in the decorator's cells.             *)
Decorate(fn) ==
    /\ server = "custom"
    /\ closure # <<>>
    /\ Len(_tools) < MaxTools
    /\ LET c == closure[1]
           name == WrapperName(c, fn)
           schema == WrapperSchema(c, fn)
           tool == [name |-> name, description |-> c.description,
                    inputSchema |-> schema]
       IN  /\ closure' = <<[c EXCEPT !.name = name, !.input_schema = <<schema>>]>>
           /\ _tool_handlers' = SetHandler(_tool_handlers, name, fn)
           /\ _tools' = AppendTool(_tools, tool)
           /\ registrations' = Append(registrations, tool)
           /\ outcome' = [Returned("decorator") EXCEPT
                            !.fn = fn,
                            !.parsed = IF c.input_schema = <<>> THEN <<schema>>
                                       ELSE <<>>]
    /\ UNCHANGED <<collaborators, calls, server, funcs, qdrant_settings,
                   tools, collections>>

(* decorator(None): returns wrapper, which registers nothing until called *)
DecorateNone ==
    /\ server = "custom"
    /\ closure # <<>>
    /\ outcome' = [Returned("decorator") EXCEPT !.fn = "wrapper"]
    /\ UNCHANGED <<collaborators, calls, server, funcs, closure, _tools,
                   _tool_handlers, registrations, qdrant_settings, tools,
                   collections>>

HandleListToolDraining ==
    /\ server = "custom"
    /\ outcome' = [Returned("list") EXCEPT !.listed = _tools]
    /\ _tools' = <<>>
    /\ UNCHANGED <<collaborators, calls, server, funcs, closure,
                   _tool_handlers, registrations, qdrant_settings, tools,
                   collections>>

(* handle_list_tool *)
HandleListTool ==
    /\ server = "custom"
    /\ outcome' = [Returned("list") EXCEPT !.listed = _tools]
    /\ UNCHANGED <<collaborators, calls, server, funcs, closure, _tools,
                   _tool_handlers, registrations, qdrant_settings, tools,
                   collections>>

(* What awaiting the handler on the unpacked arguments does before the body *)
(* of the handler runs: unpacking needs a mapping, then keywords are bound to *)
(* the parameters of the function.                                           *)
CallHandler(fn, arguments, unexpected) ==
    IF arguments.null
    THEN Raised("call", "TypeError", <<"argument after ** must be a mapping">>)
    ELSE LET keys == DOMAIN arguments.map
             missing == SelectSeq(Parameters(fn),
                           LAMBDA p : funcs[fn][p] = "required" /\ p \notin keys)
         IN  IF keys \ DeclaredParams(fn) # {}
             THEN Raised("call", "TypeError",
                         <<"got an unexpected keyword argument", unexpected>>)
             ELSE IF missing # <<>>
             THEN Raised("call", "TypeError",
                         <<"missing required positional argument">> \o missing)
             ELSE [Returned("call") EXCEPT !.invoked = fn]

CustomToolCallErrorAsContent(name, arguments, unexpected) ==
    IF name \notin DOMAIN _tool_handlers
    THEN [Returned("call") EXCEPT !.content = <<Text("Unknown tool", name, "")>>]
    ELSE CallHandler(_tool_handlers[name], arguments, unexpected)

(* handle_tool_call of custom_server.py *)
CustomToolCall(name, arguments, unexpected) ==
    IF name \notin DOMAIN _tool_handlers
    THEN Raised("call", "ValueError", <<"Unknown tool", name>>)
    ELSE CallHandler(_tool_handlers[name], arguments, unexpected)

(* The keywords of the call that the handler does not declare *)
UnexpectedKeys(name, arguments) ==
    IF arguments.null \/ name \notin DOMAIN _tool_handlers THEN {}
    ELSE DOMAIN arguments.map \ DeclaredParams(_tool_handlers[name])

(* The keyword the TypeError names when several are unexpected is the first *)
(* one in the order of the caller's dict: any of them.                      *)
HandleToolCall(name, arguments) ==
    /\ server = "custom"
    /\ LET U == UnexpectedKeys(name, arguments)
       IN  \E unexpected \in (IF U = {} THEN {None} ELSE U) :
               outcome' = [CustomToolCall(name, arguments, unexpected) EXCEPT
                             !.name = name, !.arguments = arguments]
    /\ UNCHANGED <<collaborators, calls, server, funcs, closure, _tools,
                   _tool_handlers, registrations, qdrant_settings, tools,
                   collections>>

----------------------------------------------------------------------------
(* qdrant.py: QdrantConnector over the vector store. The collection an        *)
(* operation works on is a parameter here: server.py binds it to the          *)
(* collection the connector was constructed with, mcp_server.py passes it as  *)
(* collection_name.                                                           *)

CollectionNames == {"X", "Y"}
Metadatas == {None, "m1"}
SearchLimit == 10

(* Entry(content=..., metadata=...) *)
Entry(content, metadata) == [content |-> content, metadata |-> metadata]

(* The number of points in the store *)
RECURSIVE SumLen(_, _)
SumLen(cols, names) ==
    IF names = {} THEN 0
    ELSE LET n == CHOOSE x \in names : TRUE
         IN  Len(cols[n]) + SumLen(cols, names \ {n})
TotalPoints(cols) == SumLen(cols, DOMAIN cols)

(* _ensure_collection_exists: create_collection only when collection_exists *)
(* answered no                                                              *)
EnsureCollectionExists(cols, name) ==
    IF name \in DOMAIN cols THEN cols
    ELSE [c \in DOMAIN cols \cup {name} |-> IF c = name THEN <<>> ELSE cols[c]]

UpsertByDocument(cols, name, entry) ==
    LET point == [document |-> entry.content, metadata |-> entry.metadata]
    IN  IF \E i \in DOMAIN cols[name] : cols[name][i].document = entry.content
        THEN [cols EXCEPT ![name] =
                [i \in DOMAIN @ |-> IF @[i].document = entry.content
                                    THEN point ELSE @[i]]]
        ELSE [cols EXCEPT ![name] = Append(@, point)]

(* client.upsert of one point under a fresh uuid4 id, so a point is added; *)
(* its payload is {"document": entry.content, "metadata": entry.metadata}  *)
Upsert(cols, name, entry) ==
    [cols EXCEPT ![name] =
        Append(@, [document |-> entry.content, metadata |-> entry.metadata])]

(* store, from its first await to its last *)
Store(cols, name, entry) ==
    Upsert(EnsureCollectionExists(cols, name), name, entry)

(* One operation of the client on the vector store and the collection it *)
(* names                                                                 *)
Operation(op, name) == [op |-> op, collection |-> name]

(* The client operations store issues: collection_exists, create_collection *)
(* after a no, upsert                                                       *)
StoreOperations(cols, name) ==
    <<Operation("collection_exists", name)>>
        \o (IF name \in DOMAIN cols THEN <<>>
            ELSE <<Operation("create_collection", name)>>)
        \o <<Operation("upsert", name)>>

(* The client operations search issues: collection_exists, search after a yes *)
SearchOperations(cols, name) ==
    <<Operation("collection_exists", name)>>
        \o (IF name \in DOMAIN cols THEN <<Operation("search", name)>> ELSE <<>>)

(* The first n elements of a sequence *)
Take(seq, n) == SubSeq(seq, 1, IF Len(seq) < n THEN Len(seq) ELSE n)

(* client.search: the points nearest to the query vector, nearest first, at *)
(* most `limit` of them. The embedding is not modelled: a point whose       *)
(* document is the query itself ranks before the others, which keep the     *)
(* order in which they were stored.                                         *)
ClientSearch(points, query, limit) ==
    Take(SelectSeq(points, LAMBDA pt : pt.document = query)
           \o SelectSeq(points, LAMBDA pt : pt.document # query), limit)

SearchAbsentAsError(cols, name, query, limit) ==
    IF name \notin DOMAIN cols THEN <<Entry("Not found", None)>>
    ELSE LET found == ClientSearch(cols[name], query, limit)
         IN  [i \in 1..Len(found) |->
                 Entry(found[i].document, found[i].metadata)]

SearchDroppingMetadata(cols, name, query, limit) ==
    IF name \notin DOMAIN cols THEN <<>>
    ELSE LET found == ClientSearch(cols[name], query, limit)
         IN  [i \in 1..Len(found) |-> Entry(found[i].document, None)]

(* search: the empty list when the collection does not exist, else one *)
(* Entry per search result                                             *)
Search(cols, name, query, limit) ==
    IF name \notin DOMAIN cols THEN <<>>
    ELSE LET found == ClientSearch(cols[name], query, limit)
         IN  [i \in 1..Len(found) |->
                 Entry(found[i].document, found[i].metadata)]

----------------------------------------------------------------------------
(* server.py: serve(), the server with the two hard-wired tools *)

LegacyCollection == "X"

(* The values of --qdrant-url and --qdrant-local-path: not given, given *)
(* empty, given                                                         *)
Locations == {None, "", "given"}

(* bool(qdrant_url), bool(qdrant_local_path) *)
Given(location) == location # None /\ location # ""

(* The collaborators the entry points construct *)
Collaborators == {"embedding_provider", "qdrant_connector"}

(* The server has been built over its connector and answers requests *)
Serving == "qdrant_connector" \in collaborators

(* The test main() makes before anything else: exactly one of the two *)
ExactlyOneLocation(url, path) == Given(url) # Given(path)

(* main() of server.py: the check of the two options, then _run builds *)
(* the embedding provider and the connector and serves                 *)
Main ==
    /\ server = "legacy"
    /\ collaborators = {}
    /\ outcome = NoOutcome
    /\ IF ExactlyOneLocation(qdrant_settings.location, qdrant_settings.local_path)
       THEN /\ collaborators' = Collaborators
            /\ outcome' = Returned("main")
       ELSE /\ collaborators' = collaborators
            /\ outcome' = Raised("main", "ValueError",
                  <<"Exactly one of qdrant-url or qdrant-local-path must be provided">>)
    /\ UNCHANGED <<calls, server, funcs, closure, _tools, _tool_handlers,
                   registrations, qdrant_settings, tools, collections>>
LegacyToolNames == <<"qdrant-store-memory", "qdrant-find-memories">>
LegacyKeys == {"information", "query", "bogus"}
LegacyNames == {LegacyToolNames[i] : i \in DOMAIN LegacyToolNames}

(* The `required` list of the inputSchema handle_list_tools gives each tool *)
LegacyRequired(name) ==
    IF name = "qdrant-store-memory" THEN <<"information">> ELSE <<"query">>

(* QdrantConnector.store_memory and find_memories are called by server.py *)
(* and defined nowhere in the source tree: the memory is stored as an     *)
(* entry without metadata, and found memories are the documents.          *)
StoreMemory(cols, information) ==
    Store(cols, LegacyCollection, Entry(information, None))
FindMemories(cols, query) ==
    LET es == Search(cols, LegacyCollection, query, SearchLimit)
    IN  [i \in 1..Len(es) |-> es[i].content]

(* `not arguments or key not in arguments` *)
LacksArgument(arguments, key) ==
    \/ arguments.null
    \/ DOMAIN arguments.map = {}
    \/ key \notin DOMAIN arguments.map

(* handle_tool_call of server.py: what it returns or raises *)
LegacyToolCall(name, arguments) ==
    IF name \notin LegacyNames
    THEN Raised("call", "ValueError", <<"Unknown tool", name>>)
    ELSE IF name = "qdrant-store-memory"
    THEN IF LacksArgument(arguments, "information")
         THEN Raised("call", "ValueError",
                     <<"Missing required argument", "information">>)
         ELSE [Returned("call") EXCEPT
                 !.invoked = "store_memory",
                 !.content = <<Text("Remembered", arguments.map["information"],
                                    None)>>]
    ELSE IF LacksArgument(arguments, "query")
         THEN Raised("call", "ValueError", <<"Missing required argument", "query">>)
         ELSE LET memories == FindMemories(collections, arguments.map["query"])
              IN  [Returned("call") EXCEPT
                     !.invoked = "find_memories",
                     !.content =
                        <<Text("Memories for the query", arguments.map["query"],
                               None)>>
                        \o [i \in 1..Len(memories) |->
                               Text("memory", memories[i], None)]]

(* handle_tool_call of server.py: the call and its effect on the store *)
LegacyHandleToolCall(name, arguments) ==
    /\ server = "legacy"
    /\ Serving
    /\ LET out == LegacyToolCall(name, arguments)
       IN  /\ outcome' = [out EXCEPT !.name = name, !.arguments = arguments]
           /\ IF out.invoked = "store_memory"
              THEN /\ TotalPoints(collections) < MaxPoints
                   /\ collections' =
                         StoreMemory(collections, arguments.map["information"])
              ELSE UNCHANGED collections
    /\ UNCHANGED <<collaborators, calls, server, funcs, closure, _tools,
                   _tool_handlers, registrations, qdrant_settings, tools>>

(* The collaborators a connector call may fail in *)
Failures == {"VectorStore", "Embedder"}

(* The argument a tool of server.py reads *)
LegacyKey(name) == LegacyRequired(name)[1]

(* handle_tool_call of server.py when the connector call it awaits raises: *)
(* the await stands outside any try, so the exception leaves the function  *)
LegacyToolCallFailing(name, arguments, failed) ==
    [Raised("call", "Exception", <<failed>>) EXCEPT
       !.invoked = IF name = "qdrant-store-memory" THEN "store_memory"
                   ELSE "find_memories",
       !.failed = failed]

(* A call whose arguments pass the checks and whose connector call raises. *)
(* A failing store may have created the collection before it failed.       *)
LegacyHandleToolCallFailing(name, arguments, failed) ==
    /\ server = "legacy"
    /\ Serving
    /\ name \in LegacyNames
    /\ ~LacksArgument(arguments, LegacyKey(name))
    /\ outcome' = [LegacyToolCallFailing(name, arguments, failed) EXCEPT
                     !.name = name, !.arguments = arguments]
    /\ IF name = "qdrant-store-memory"
       THEN collections' \in
               {collections, EnsureCollectionExists(collections, LegacyCollection)}
       ELSE UNCHANGED collections
    /\ UNCHANGED <<collaborators, calls, server, funcs, closure, _tools,
                   _tool_handlers, registrations, qdrant_settings, tools>>

(* handle_list_tools of server.py: the same two tools on every call *)
LegacyHandleListTools ==
    /\ server = "legacy"
    /\ Serving
    /\ outcome' = [Returned("list") EXCEPT
                     !.listed = [i \in DOMAIN LegacyToolNames |->
                                   [name |-> LegacyToolNames[i],
                                    required |-> LegacyRequired(LegacyToolNames[i])]]]
    /\ UNCHANGED <<collaborators, calls, server, funcs, closure, _tools,
                   _tool_handlers, registrations, qdrant_settings, tools,
                   collections>>

----------------------------------------------------------------------------
(* mcp_server.py: QdrantMCPServer(FastMCP) *)

ConfiguredNames == {None, "", "X"}
TruncateAt == 200

(* Python truthiness of qdrant_settings.collection_name: None and the empty *)
(* string are false                                                         *)
Truthy(name) == name # None /\ name # ""

(* The parameters of the tool functions of setup_tools after ctx, which the *)
(* framework supplies; only metadata of store has a default                *)
HandlerParams(fn) ==
    CASE fn = "store" -> <<"information", "collection_name", "metadata">>
      [] fn = "store_with_default_collection" -> <<"information", "metadata">>
      [] fn = "find" -> <<"query", "collection_name">>
      [] fn = "find_with_default_collection" -> <<"query">>
      [] fn = "match" -> <<"metadata", "collection_name">>
      [] fn = "match_with_default_collection" -> <<"metadata">>
      [] fn = "list_collections" -> <<>>
      [] fn = "get_collection_info" -> <<"collection_name">>

HandlerDefaults(fn) ==
    IF fn \in {"store", "store_with_default_collection"} THEN {"metadata"} ELSE {}

(* The parameters a caller has to supply: those declared without a default *)
HandlerRequired(fn) ==
    {HandlerParams(fn)[i] : i \in DOMAIN HandlerParams(fn)} \ HandlerDefaults(fn)

HasParam(fn, p) == \E i \in DOMAIN HandlerParams(fn) : HandlerParams(fn)[i] = p

(* One add_tool call: the tool name and the function registered under it *)
Tool(name, fn) == [name |-> name, fn |-> fn]

(* The branches of setup_tools, in the order of its add_tool calls *)
FindTools(settings) ==
    IF Truthy(settings.collection_name)
    THEN <<Tool("qdrant-find", "find_with_default_collection")>>
    ELSE <<Tool("qdrant-find", "find")>>

StoreToolsIgnoringReadOnly(settings) ==
    IF Truthy(settings.collection_name)
    THEN <<Tool("qdrant-store", "store_with_default_collection")>>
    ELSE <<Tool("qdrant-store", "store")>>

StoreTools(settings) ==
    IF ~settings.read_only
    THEN IF Truthy(settings.collection_name)
         THEN <<Tool("qdrant-store", "store_with_default_collection")>>
         ELSE <<Tool("qdrant-store", "store")>>
    ELSE <<>>

ManagementTools ==
    <<Tool("qdrant-list-collections", "list_collections"),
      Tool("qdrant-collection-info", "get_collection_info")>>

MatchToolsUnconditional(settings) == <<Tool("qdrant-match", "match")>>

MatchTools(settings) ==
    IF Truthy(settings.collection_name)
    THEN <<Tool("qdrant-match", "match_with_default_collection")>>
    ELSE <<Tool("qdrant-match", "match")>>

SetupToolsManagementGated(settings) ==
    FindTools(settings)
        \o (IF ~settings.read_only
            THEN StoreTools(settings) \o ManagementTools ELSE <<>>)
        \o MatchTools(settings)

(* setup_tools *)
SetupTools(settings) ==
    FindTools(settings) \o StoreTools(settings) \o ManagementTools
        \o MatchTools(settings)

(* __init__: the embedding provider and the connector are constructed from *)
(* the settings as they are, then setup_tools runs. The connector hands    *)
(* location and local_path to AsyncQdrantClient, whose constructor is not  *)
(* part of the source tree: given both it may reject them, and then the    *)
(* embedding provider has been constructed already.                        *)
Construct ==
    /\ server = "fastmcp"
    /\ tools = <<>>
    /\ collaborators = {}
    /\ \/ /\ collaborators' = Collaborators
          /\ tools' = SetupTools(qdrant_settings)
          /\ outcome' = Returned("construct")
       \/ /\ Given(qdrant_settings.location)
          /\ Given(qdrant_settings.local_path)
          /\ collaborators' = {"embedding_provider"}
          /\ tools' = tools
          /\ outcome' = [Raised("construct", "ValueError", <<"AsyncQdrantClient">>)
                           EXCEPT !.failed = "AsyncQdrantClient"]
    /\ UNCHANGED <<calls, server, funcs, closure, _tools, _tool_handlers,
                   registrations, qdrant_settings, collections>>

(* The functions registered under a tool name *)
RegisteredFns(name) == {tools[i].fn : i \in {j \in DOMAIN tools : tools[j].name = name}}

(* content[:n]: the content itself unless it is longer than n *)
FirstChars(content, n) ==
    IF TextLen(content) > n THEN content \o "[:200]" ELSE content

FormatEntryCuttingAtLimit(entry, truncate) ==
    Text("entry",
         IF truncate /\ TextLen(entry.content) >= TruncateAt
         THEN FirstChars(entry.content, TruncateAt) \o "..." ELSE entry.content,
         IF entry.metadata # None THEN entry.metadata ELSE "")

(* format_entry *)
FormatEntry(entry, truncate) ==
    Text("entry",
         IF truncate /\ TextLen(entry.content) > TruncateAt
         THEN FirstChars(entry.content, TruncateAt) \o "..." ELSE entry.content,
         IF entry.metadata # None THEN entry.metadata ELSE "")

FindNewestFirst(cols, query, collection_name) ==
    LET entries == Search(cols, collection_name, query, SearchLimit)
    IN  IF entries = <<>>
        THEN <<Text("No information found for the query", query, "")>>
        ELSE <<Text("Results for the query", query, "")>>
             \o [i \in 1..Len(entries) |->
                    FormatEntry(entries[Len(entries) + 1 - i], TRUE)]

(* find(ctx, query, collection_name): the list of strings it returns *)
Find(cols, query, collection_name) ==
    LET entries == Search(cols, collection_name, query, SearchLimit)
    IN  IF entries = <<>>
        THEN <<Text("No information found for the query", query, "")>>
        ELSE <<Text("Results for the query", query, "")>>
             \o [i \in 1..Len(entries) |-> FormatEntry(entries[i], TRUE)]

TargetCollectionFromCaller(fn, collection_name) == collection_name

(* The collection a tool function works on: the bound variants pass the *)
(* configured name, the others the caller's collection_name             *)
TargetCollection(fn, collection_name) ==
    IF fn \in {"find_with_default_collection", "store_with_default_collection",
               "match_with_default_collection"}
    THEN qdrant_settings.collection_name
    ELSE collection_name

(* The arguments the framework binds to the parameters of the function *)
FindArguments(fn, query, collection_name) ==
    [null |-> FALSE,
     map |-> [k \in {HandlerParams(fn)[i] : i \in DOMAIN HandlerParams(fn)} |->
                IF k = "query" THEN query ELSE collection_name]]

StoreArguments(fn, information, collection_name, metadata) ==
    [null |-> FALSE,
     map |-> [k \in {HandlerParams(fn)[i] : i \in DOMAIN HandlerParams(fn)} |->
                IF k = "information" THEN information
                ELSE IF k = "metadata" THEN metadata ELSE collection_name]]

(* A call of the tool qdrant-find: find or find_with_default_collection *)
CallFind(query, collection_name) ==
    /\ server = "fastmcp"
    /\ \E fn \in RegisteredFns("qdrant-find") :
          outcome' = [Returned("call") EXCEPT
                        !.name = "qdrant-find",
                        !.arguments = FindArguments(fn, query, collection_name),
                        !.invoked = fn,
                        !.content = Find(collections, query,
                                         TargetCollection(fn, collection_name)),
                        !.entries = Search(collections,
                                           TargetCollection(fn, collection_name),
                                           query, SearchLimit),
                        !.supplied = collection_name,
                        !.issued = SearchOperations(collections,
                                       TargetCollection(fn, collection_name))]
    /\ UNCHANGED <<collaborators, calls, server, funcs, closure, _tools,
                   _tool_handlers, registrations, qdrant_settings, tools,
                   collections>>

(* QdrantConnector.search_by_metadata is called by match and defined      *)
(* nowhere in the source tree: the entries of the points of the           *)
(* collection whose metadata is the given metadata, in stored order, none *)
(* when the collection does not exist.                                    *)
SearchByMetadata(cols, name, metadata) ==
    IF name \notin DOMAIN cols THEN <<>>
    ELSE LET found == SelectSeq(cols[name], LAMBDA pt : pt.metadata = metadata)
         IN  [i \in 1..Len(found) |->
                 Entry(found[i].document, found[i].metadata)]

(* The client operation search_by_metadata issues: a metadata search of the *)
(* collection it is given                                                  *)
SearchByMetadataOperations(cols, name) ==
    <<Operation("search_by_metadata", name)>>

(* match(ctx, metadata, collection_name): the list of strings it returns *)
Match(cols, metadata, collection_name) ==
    LET entries == SearchByMetadata(cols, collection_name, metadata)
    IN  IF entries = <<>>
        THEN <<Text("No information found for the metadata", metadata, "")>>
        ELSE <<Text("Results for the metadata match", metadata, "")>>
             \o [i \in 1..Len(entries) |-> FormatEntry(entries[i], FALSE)]

MatchArguments(fn, metadata, collection_name) ==
    [null |-> FALSE,
     map |-> [k \in {HandlerParams(fn)[i] : i \in DOMAIN HandlerParams(fn)} |->
                IF k = "metadata" THEN metadata ELSE collection_name]]

(* A call of the tool qdrant-match: match or match_with_default_collection *)
CallMatch(metadata, collection_name) ==
    /\ server = "fastmcp"
    /\ \E fn \in RegisteredFns("qdrant-match") :
          outcome' = [Returned("call") EXCEPT
                        !.name = "qdrant-match",
                        !.arguments = MatchArguments(fn, metadata, collection_name),
                        !.invoked = fn,
                        !.content = Match(collections, metadata,
                                          TargetCollection(fn, collection_name)),
                        !.entries = SearchByMetadata(collections,
                                        TargetCollection(fn, collection_name),
                                        metadata),
                        !.supplied = collection_name,
                        !.issued = SearchByMetadataOperations(collections,
                                       TargetCollection(fn, collection_name))]
    /\ UNCHANGED <<collaborators, calls, server, funcs, closure, _tools,
                   _tool_handlers, registrations, qdrant_settings, tools,
                   collections>>

(* The string store returns *)
StoreResult(information, collection_name) ==
    IF Truthy(collection_name)
    THEN Text("Remembered in collection", information, collection_name)
    ELSE Text("Remembered", information, "")

(* A call of the tool qdrant-store: store or store_with_default_collection *)
CallStore(information, collection_name, metadata) ==
    /\ server = "fastmcp"
    /\ TotalPoints(collections) < MaxPoints
    /\ \E fn \in RegisteredFns("qdrant-store") :
          LET target == TargetCollection(fn, collection_name)
          IN  /\ collections' = Store(collections, target, Entry(information, metadata))
              /\ outcome' = [Returned("call") EXCEPT
                               !.name = "qdrant-store",
                               !.arguments = StoreArguments(fn, information,
                                                 collection_name, metadata),
                               !.invoked = fn,
                               !.content = <<StoreResult(information, target)>>,
                               !.supplied = collection_name,
                               !.issued = StoreOperations(collections, target)]
    /\ UNCHANGED <<collaborators, calls, server, funcs, closure, _tools,
                   _tool_handlers, registrations, qdrant_settings, tools>>

----------------------------------------------------------------------------
(* mcp_server.py over qdrant.py, await by await: the tool calls in flight. *)
(* A call in flight is suspended on one await of the connector; the awaits  *)
(* of the embedding provider are taken together with the client operation   *)
(* that follows them: embed_query("sample text") with create_collection,    *)
(* embed_documents with upsert, embed_query with client.search. The         *)
(* ctx.debug awaits of the tool functions come before the first of them.    *)

MaxCalls == 2

(* A tool function that has been called and awaits collection_exists, the *)
(* first await of both store and search                                   *)
InFlight(name, fn, arguments, collection) ==
    [name |-> name, fn |-> fn, arguments |-> arguments, collection |-> collection,
     pc |-> "collection_exists", exists |-> FALSE, created |-> FALSE]

NextAwaitSkippingCreate(name, pc, exists) ==
    IF name = "qdrant-store" /\ pc \in {"collection_exists", "create_collection"}
    THEN "upsert"
    ELSE IF name = "qdrant-find" /\ pc = "collection_exists" /\ exists
    THEN "search" ELSE "done"

(* The await that follows the one at pc in store (through                  *)
(* _ensure_collection_exists) and in search; exists is what                *)
(* collection_exists answered                                              *)
NextAwait(name, pc, exists) ==
    IF name = "qdrant-store" /\ pc = "collection_exists"
    THEN IF exists THEN "upsert" ELSE "create_collection"
    ELSE IF name = "qdrant-store" /\ pc = "create_collection"
    THEN "upsert"
    ELSE IF name = "qdrant-find" /\ pc = "collection_exists" /\ exists
    THEN "search" ELSE "done"

(* The calls in flight, and those without one call or with one call at its *)
(* next await                                                              *)
InFlightCalls == BagToSet(calls)
Without(call) == calls (-) SetToBag({call})
Moved(call, next) == Without(call) (+) SetToBag({next})

RECURSIVE SumCopies(_)
SumCopies(cs) ==
    IF cs = {} THEN 0
    ELSE LET c == CHOOSE x \in cs : TRUE
         IN  CopiesIn(c, calls) + SumCopies(cs \ {c})
StoresInFlight == SumCopies({c \in InFlightCalls : c.name = "qdrant-store"})

(* The tool function returns: its value becomes the result of the call *)
Completed(call, content, entries) ==
    [Returned("call") EXCEPT
       !.name = call.name, !.arguments = call.arguments, !.invoked = call.fn,
       !.content = content, !.entries = entries]

(* The awaited operation raises: nothing catches the exception on its way *)
(* out of the connector and the tool function                             *)
Failed(call, failed) ==
    [Raised("call", "Exception", <<call.pc>>) EXCEPT
       !.name = call.name, !.arguments = call.arguments, !.invoked = call.fn,
       !.failed = failed]

CancelledAsContent(call) ==
    [Returned("call") EXCEPT
       !.name = call.name, !.arguments = call.arguments, !.invoked = call.fn,
       !.content = <<Text("Cancelled", call.pc, "")>>]

(* asyncio raises CancelledError at the await the call is suspended on, *)
(* inside the collaborator; no frame between there and the caller has   *)
(* an except or finally clause, so every frame is left at once          *)
Cancelled(call) ==
    [Raised("call", "CancelledError", <<call.pc>>) EXCEPT
       !.name = call.name, !.arguments = call.arguments, !.invoked = call.fn]

(* store(ctx, information, collection_name, metadata) is called *)
BeginStore(information, collection_name, metadata) ==
    /\ server = "fastmcp"
    /\ BagCardinality(calls) < MaxCalls
    /\ TotalPoints(collections) + StoresInFlight < MaxPoints
    /\ \E fn \in RegisteredFns("qdrant-store") :
          calls' = calls (+) SetToBag({
                      InFlight("qdrant-store", fn,
                               StoreArguments(fn, information, collection_name,
                                              metadata),
                               TargetCollection(fn, collection_name))})
    /\ UNCHANGED <<collaborators, server, funcs, closure, _tools,
                   _tool_handlers, registrations, qdrant_settings, tools,
                   collections, outcome>>

(* find(ctx, query, collection_name) is called *)
BeginFind(query, collection_name) ==
    /\ server = "fastmcp"
    /\ BagCardinality(calls) < MaxCalls
    /\ \E fn \in RegisteredFns("qdrant-find") :
          calls' = calls (+) SetToBag({
                      InFlight("qdrant-find", fn,
                               FindArguments(fn, query, collection_name),
                               TargetCollection(fn, collection_name))})
    /\ UNCHANGED <<collaborators, server, funcs, closure, _tools,
                   _tool_handlers, registrations, qdrant_settings, tools,
                   collections, outcome>>

(* client.collection_exists answers. search returns [] on a no, and find *)
(* returns its result for no entries at once.                            *)
AwaitCollectionExists(call) ==
    /\ call \in InFlightCalls
    /\ call.pc = "collection_exists"
    /\ LET exists == call.collection \in DOMAIN collections
           next == NextAwait(call.name, call.pc, exists)
       IN  IF next = "done"
           THEN /\ calls' = Without(call)
                /\ outcome' =
                      Completed(call,
                          Find(collections, call.arguments.map["query"],
                               call.collection),
                          Search(collections, call.collection,
                                 call.arguments.map["query"], SearchLimit))
           ELSE /\ calls' = Moved(call, [call EXCEPT !.pc = next, !.exists = exists])
                /\ UNCHANGED outcome
    /\ UNCHANGED <<collaborators, server, funcs, closure, _tools,
                   _tool_handlers, registrations, qdrant_settings, tools,
                   collections>>

(* client.create_collection answers; the vector store refuses to create a *)
(* collection that exists                                                 *)
AwaitCreateCollection(call) ==
    /\ call \in InFlightCalls
    /\ call.pc = "create_collection"
    /\ IF call.collection \in DOMAIN collections
       THEN /\ calls' = Without(call)
            /\ outcome' = Failed(call, "VectorStore")
            /\ UNCHANGED collections
       ELSE /\ calls' =
                  Moved(call, [call EXCEPT
                                 !.pc = NextAwait(call.name, call.pc, FALSE),
                                 !.created = TRUE])
            /\ collections' = EnsureCollectionExists(collections, call.collection)
            /\ UNCHANGED outcome
    /\ UNCHANGED <<collaborators, server, funcs, closure, _tools,
                   _tool_handlers, registrations, qdrant_settings, tools>>

(* client.upsert answers and store returns its string; the vector store *)
(* refuses a point for a collection that does not exist                 *)
AwaitUpsert(call) ==
    /\ call \in InFlightCalls
    /\ call.pc = "upsert"
    /\ calls' = Without(call)
    /\ IF call.collection \notin DOMAIN collections
       THEN /\ outcome' = Failed(call, "VectorStore")
            /\ UNCHANGED collections
       ELSE /\ collections' =
                  Upsert(collections, call.collection,
                         Entry(call.arguments.map["information"],
                               call.arguments.map["metadata"]))
            /\ outcome' =
                  Completed(call,
                      <<StoreResult(call.arguments.map["information"],
                                    call.collection)>>,
                      <<>>)
    /\ UNCHANGED <<collaborators, server, funcs, closure, _tools,
                   _tool_handlers, registrations, qdrant_settings, tools>>

(* client.search answers, search builds the entries and find its result *)
AwaitSearch(call) ==
    /\ call \in InFlightCalls
    /\ call.pc = "search"
    /\ calls' = Without(call)
    /\ outcome' =
          Completed(call,
              Find(collections, call.arguments.map["query"], call.collection),
              Search(collections, call.collection,
                     call.arguments.map["query"], SearchLimit))
    /\ UNCHANGED <<collaborators, server, funcs, closure, _tools,
                   _tool_handlers, registrations, qdrant_settings, tools,
                   collections>>

(* The protocol runtime cancels the task of a call in flight *)
Cancel(call) ==
    /\ call \in InFlightCalls
    /\ calls' = Without(call)
    /\ outcome' = Cancelled(call)
    /\ UNCHANGED <<collaborators, server, funcs, closure, _tools,
                   _tool_handlers, registrations, qdrant_settings, tools,
                   collections>>

----------------------------------------------------------------------------
(* Initial states and next-state relation *)

NoHandlers == [n \in {} |-> None]
NoSettings ==
    [location |-> None, local_path |-> None, collection_name |-> None,
     read_only |-> FALSE]
NoCalls == EmptyBag
NoCollections == [c \in {} |-> <<>>]
NoFuncs == [f \in {} |-> [p \in {} |-> "absent"]]

(* QdrantMCPServer.__init__ of custom_server.py: both collections empty *)
InitCustom ==
    /\ server = "custom"
    /\ \E s \in ToolOneSignatures :
          funcs = [f \in FuncNames |-> IF f = "tool_one" THEN s ELSE ToolTwoSignature]
    /\ closure = <<>>
    /\ _tools = <<>>
    /\ _tool_handlers = NoHandlers
    /\ registrations = <<>>
    /\ qdrant_settings = NoSettings
    /\ tools = <<>>
    /\ collections = NoCollections
    /\ collaborators = {}
    /\ calls = NoCalls
    /\ outcome = NoOutcome

(* The process of server.py before main() has run, with the options click *)
(* hands to main; the collection may or may not exist in the store yet    *)
InitLegacy ==
    /\ server = "legacy"
    /\ funcs = NoFuncs
    /\ closure = <<>>
    /\ _tools = <<>>
    /\ _tool_handlers = NoHandlers
    /\ registrations = <<>>
    /\ qdrant_settings \in
          [location : Locations, local_path : Locations,
           collection_name : {LegacyCollection}, read_only : {FALSE}]
    /\ tools = <<>>
    /\ collections \in {NoCollections, [c \in {LegacyCollection} |-> <<>>]}
    /\ collaborators = {}
    /\ calls = NoCalls
    /\ outcome = NoOutcome

Init == InitCustom \/ InitLegacy

Next ==
    \/ Main
    \/ \E d \in Descriptions, i \in RegisterInputs :
          RegisterTool(d, i.name, i.input_schema)
    \/ \E fn \in FuncNames : Decorate(fn)
    \/ DecorateNone
    \/ HandleListTool
    \/ \E n \in ToolNames \cup {"nonexistent-tool"}, a \in Arguments(CallKeys, {"fox"}) :
          HandleToolCall(n, a)
    \/ \E i \in DOMAIN LegacyToolNames \cup {0}, a \in Arguments(LegacyKeys, Texts) :
          LegacyHandleToolCall(IF i = 0 THEN "nonexistent-tool" ELSE LegacyToolNames[i], a)
    \/ \E i \in DOMAIN LegacyToolNames, a \in Arguments(LegacyKeys, Texts),
          f \in Failures :
          LegacyHandleToolCallFailing(LegacyToolNames[i], a, f)
    \/ LegacyHandleListTools

Spec == Init /\ [][Next]_vars

(* QdrantMCPServer(tool_settings, qdrant_settings, ...) of mcp_server.py, *)
(* before __init__ has run. The settings are a QdrantSettings(): location *)
(* and local_path are each optional there and nothing relates them.       *)
InitFastMCP ==
    /\ server = "fastmcp"
    /\ funcs = NoFuncs
    /\ closure = <<>>
    /\ _tools = <<>>
    /\ _tool_handlers = NoHandlers
    /\ registrations = <<>>
    /\ qdrant_settings \in
          [location : {None, "given"}, local_path : {None, "given"},
           collection_name : ConfiguredNames, read_only : BOOLEAN]
    /\ tools = <<>>
    /\ collections \in {NoCollections, [c \in {"X"} |-> <<>>]}
    /\ collaborators = {}
    /\ calls = NoCalls
    /\ outcome = NoOutcome

(* The collection_name a request carries. The parameterized variants need  *)
(* one; the bound variants declare no such parameter, and a request that   *)
(* carries one all the same reaches them without it (FindArguments,        *)
(* StoreArguments, MatchArguments bind declared parameters only)           *)
CallerCollections ==
    IF Truthy(qdrant_settings.collection_name)
    THEN {None} \cup CollectionNames ELSE CollectionNames

NextFastMCP ==
    \/ Construct
    \/ \E q \in Texts, c \in CallerCollections : CallFind(q, c)
    \/ \E t \in Contents, c \in CallerCollections, m \in Metadatas : CallStore(t, c, m)
    \/ \E m \in Metadatas \ {None}, c \in CallerCollections : CallMatch(m, c)

SpecFastMCP == InitFastMCP /\ [][NextFastMCP]_vars

(* The server of mcp_server.py once constructed, writable, over a connector *)
(* with a configured collection, as QdrantConnector of qdrant.py has one    *)
InitCalls ==
    /\ server = "fastmcp"
    /\ funcs = NoFuncs
    /\ closure = <<>>
    /\ _tools = <<>>
    /\ _tool_handlers = NoHandlers
    /\ registrations = <<>>
    /\ qdrant_settings \in
          [location : {"given"}, local_path : {None},
           collection_name : {"X"}, read_only : {FALSE}]
    /\ tools = SetupTools(qdrant_settings)
    /\ collections \in {NoCollections, [c \in {"X"} |-> <<>>]}
    /\ collaborators = Collaborators
    /\ calls = NoCalls
    /\ outcome = NoOutcome

NextCalls ==
    \/ \E t \in Texts, c \in CallerCollections, m \in Metadatas : BeginStore(t, c, m)
    \/ \E q \in Texts, c \in CallerCollections : BeginFind(q, c)
    \/ \E call \in InFlightCalls : AwaitCollectionExists(call)
    \/ \E call \in InFlightCalls : AwaitCreateCollection(call)
    \/ \E call \in InFlightCalls : AwaitUpsert(call)
    \/ \E call \in InFlightCalls : AwaitSearch(call)
    \/ \E call \in InFlightCalls : Cancel(call)

SpecCalls == InitCalls /\ [][NextCalls]_vars

----------------------------------------------------------------------------
(* Properties of registration and dispatch (custom_server.py, server.py), *)
(* under Spec                                                             *)

(* A call rejected as an unknown tool: an error is raised, nothing is *)
(* returned as content and no handler ran                             *)
UnknownToolRejection(out, name) ==
    /\ out.kind = "raise"
    /\ out.error = "ValueError"
    /\ out.message = <<"Unknown tool", name>>
    /\ out.content = <<>>
    /\ out.invoked = None

(* The names handle_tool_call accepts *)
RegisteredNames ==
    IF server = "custom" THEN DOMAIN _tool_handlers
    ELSE IF server = "legacy" THEN LegacyNames
    ELSE {tools[i].name : i \in DOMAIN tools}

(* C4: a call of handle_tool_call with a name that is not registered, with *)
(* any arguments, None included, raises the unknown-tool error: it returns *)
(* no content and runs no handler, and the step leaves the store and the   *)
(* registry as they were.                                                  *)
C4_UnknownToolRejected ==
    [][(outcome'.op = "call" /\ outcome'.name \notin RegisteredNames)
         => /\ UnknownToolRejection(outcome', outcome'.name)
            /\ collections' = collections
            /\ _tools' = _tools
            /\ _tool_handlers' = _tool_handlers]_vars

C4_Witness ==
    /\ server = "custom"
    /\ DOMAIN _tool_handlers # {}
    /\ outcome.op = "call"
    /\ outcome.arguments.null
    /\ UnknownToolRejection(outcome, "nonexistent-tool")

(* The required parameters a call does not supply *)
MissingRequired(required, arguments) ==
    IF arguments.null THEN required ELSE required \ DOMAIN arguments.map

(* A call rejected for a missing argument: an error is raised that names a *)
(* missing field, nothing is returned as content and no handler ran        *)
MissingArgumentRejection(out, missing) ==
    /\ out.kind = "raise"
    /\ \E i \in DOMAIN out.message : out.message[i] \in missing
    /\ out.content = <<>>
    /\ out.invoked = None

(* The required parameters of the tool registered under a name *)
RequiredOf(name) ==
    IF server = "custom" THEN RequiredParams(_tool_handlers[name])
    ELSE {LegacyRequired(name)[i] : i \in DOMAIN LegacyRequired(name)}

(* C5: a call of a registered tool whose arguments lack a required parameter *)
(* is rejected with an error that names a missing field; the failure is not  *)
(* returned as content, and no handler (so no collaborator) is called.       *)
C5_MissingArgumentRejected ==
    (/\ server \in {"custom", "legacy"}
     /\ outcome.op = "call"
     /\ outcome.name \in RegisteredNames
     /\ MissingRequired(RequiredOf(outcome.name), outcome.arguments) # {})
    => MissingArgumentRejection(outcome,
           MissingRequired(RequiredOf(outcome.name), outcome.arguments))

(* The empty mapping as the arguments of a call *)
EmptyArguments == [null |-> FALSE, map |-> NoMapping]

(* What handle_tool_call returns or raises for a name with the empty mapping *)
CallWithEmptyMapping(name) ==
    IF server = "custom" THEN CustomToolCall(name, EmptyArguments, None)
    ELSE LegacyToolCall(name, EmptyArguments)

(* C25: a call of a registered tool with arguments None has the outcome of *)
(* the same call with the empty mapping: a tool without required          *)
(* parameters is invoked and its result returned, a tool with a required  *)
(* parameter is rejected as for {}, with the same error.                  *)
C25_NullArgumentsAsEmptyMapping ==
    (/\ server \in {"custom", "legacy"}
     /\ outcome.op = "call"
     /\ outcome.arguments.null
     /\ outcome.name \in RegisteredNames)
    => outcome = [CallWithEmptyMapping(outcome.name) EXCEPT
                    !.name = outcome.name, !.arguments = outcome.arguments]

(* C6: registering a tool under a name that is already registered fails and *)
(* leaves the registry unchanged: the same tools are listed and the same    *)
(* handler is resolved for the name.                                        *)
C6_DuplicateNameRejected ==
    [][\A fn \in FuncNames :
          (Decorate(fn) /\ WrapperName(closure[1], fn) \in DOMAIN _tool_handlers)
          => /\ outcome'.kind = "raise"
             /\ _tools' = _tools
             /\ _tool_handlers' = _tool_handlers]_vars

(* The names of the parameters a schema lists *)
PropertyNames(schema) == {schema.properties[i].name : i \in DOMAIN schema.properties}
RequiredNames(schema) == {schema.required[i] : i \in DOMAIN schema.required}

(* A schema is the one derived from the signature of fn: `required` holds   *)
(* each parameter without a default once, `properties` each parameter once, *)
(* the implicit self left out of both                                        *)
DerivedFrom(schema, fn) ==
    /\ RequiredNames(schema) = RequiredParams(fn) \ {"self"}
    /\ Len(schema.required) = Cardinality(RequiredParams(fn) \ {"self"})
    /\ PropertyNames(schema) = DeclaredParams(fn) \ {"self"}
    /\ Len(schema.properties) = Cardinality(DeclaredParams(fn) \ {"self"})

(* C7: the schema derived for a handler lists in `required` exactly the      *)
(* parameters without a default value and in `properties` exactly the        *)
(* parameters, the implicit self excluded from both: N in required and N + M *)
(* in properties for N parameters without and M with a default. It holds of  *)
(* the derivation for every function, and of the schema a registration       *)
(* derived.                                                                  *)
C7_SchemaRequiredAndProperties ==
    /\ \A fn \in DOMAIN funcs : DerivedFrom(ParseFunctionParameters(fn), fn)
    /\ (outcome.op = "decorator" /\ outcome.parsed # <<>>)
          => DerivedFrom(outcome.parsed[1], outcome.fn)

C7_Witness ==
    /\ outcome.op = "decorator"
    /\ outcome.fn = "tool_one"
    /\ outcome.parsed # <<>>
    /\ funcs["tool_one"] = [self |-> "required", param1 |-> "required",
                            param2 |-> "default"]
    /\ Len(outcome.parsed[1].required) = 1
    /\ Len(outcome.parsed[1].properties) = 2
    /\ _tools[Len(_tools)].inputSchema = outcome.parsed[1]

(* C8: every application of a decorator of register_tool to a function       *)
(* registers it, in the tool list and in the handler table, under the        *)
(* function's own name with the schema derived from that function when       *)
(* register_tool was given no name (and no schema), and under the given name *)
(* and not under the function's name when it was given one.                  *)
C8_RegisteredUnderOwnOrGivenName ==
    [][\A fn \in FuncNames :
          Decorate(fn) =>
            LET c == closure[1]
                tool == _tools'[Len(_tools')]
            IN  IF c.given_name = None
                THEN /\ tool.name = fn
                     /\ fn \in DOMAIN _tool_handlers'
                     /\ _tool_handlers'[fn] = fn
                     /\ c.given_schema = <<>>
                          => tool.inputSchema = ParseFunctionParameters(fn)
                ELSE /\ tool.name = c.given_name
                     /\ _tool_handlers'[c.given_name] = fn
                     /\ tool.name # fn]_vars

NothingFound(out, query) ==
    /\ out.kind = "return"
    /\ Len(out.content) = 1
    /\ out.content[1].kind = "No information found for the query"
    /\ out.content[1].text = query

(* The entries the search of the last find call yielded; a find call does *)
(* not change the store                                                  *)
FoundByLastCall ==
    IF server = "legacy"
    THEN FindMemories(collections, outcome.arguments.map["query"])
    ELSE Search(collections,
                TargetCollection(outcome.invoked,
                    IF "collection_name" \in DOMAIN outcome.arguments.map
                    THEN outcome.arguments.map["collection_name"] ELSE None),
                outcome.arguments.map["query"], SearchLimit)

(* C10: a find call whose search yields no entries (the collection empty or *)
(* absent) returns exactly one item, which says that no information was     *)
(* found for the query; it never returns an empty sequence.                 *)
C10_FindNothingSaysSo ==
    (/\ server \in {"legacy", "fastmcp"}
     /\ outcome.op = "call"
     /\ outcome.kind = "return"
     /\ outcome.name \in {"qdrant-find-memories", "qdrant-find"}
     /\ FoundByLastCall = <<>>)
    => NothingFound(outcome, outcome.arguments.map["query"])

(* The tools server.py lists *)
LegacyListed ==
    [i \in DOMAIN LegacyToolNames |->
        [name |-> LegacyToolNames[i], required |-> LegacyRequired(LegacyToolNames[i])]]

(* C19: the registry is immutable under calls and listings. Every callTool  *)
(* and every listTools step, successful or failing, in any order, leaves    *)
(* the tool list and the handler of every name as they were, and a listing  *)
(* returns the tool list as it stands, in its order; so after any sequence  *)
(* of them the same descriptors are listed and the same handlers resolved   *)
(* as before the first.                                                     *)
C19_RegistryImmutableUnderCalls ==
    [][outcome'.op \in {"call", "list"}
         => /\ _tools' = _tools
            /\ _tool_handlers' = _tool_handlers
            /\ tools' = tools
            /\ (outcome'.op = "list" /\ server = "custom")
                  => outcome'.listed = _tools'
            /\ (outcome'.op = "list" /\ server = "legacy")
                  => outcome'.listed = LegacyListed]_vars

C19_Witness ==
    /\ server = "custom"
    /\ Len(_tools) = 2
    /\ Cardinality(DOMAIN _tool_handlers) = 2
    /\ outcome.op = "call"
    /\ outcome.kind = "raise"
    /\ outcome.name \in DOMAIN _tool_handlers

(* C12: when the handler of a registered tool, called with all required   *)
(* arguments, fails because the VectorStore or the Embedder raised, the    *)
(* call returns a result that is a single text content item describing the *)
(* failure; it does not end in an error.                                   *)
C12_CollaboratorFailureIsContent ==
    (/\ outcome.op = "call"
     /\ outcome.name \in RegisteredNames
     /\ outcome.failed \in Failures)
    => /\ outcome.kind = "return"
       /\ Len(outcome.content) = 1
       /\ outcome.content[1].extra = outcome.failed

(* The names of the tools a listing exposes, in the order of the list *)
ListedNames ==
    IF server = "custom" THEN [i \in DOMAIN _tools |-> _tools[i].name]
    ELSE LegacyToolNames

(* No name occurs twice in the list *)
ListedOnce ==
    \A i, j \in DOMAIN ListedNames : ListedNames[i] = ListedNames[j] => i = j

(* The listed names are the names handle_tool_call finds a handler for *)
ListedAreAccepted ==
    {ListedNames[i] : i \in DOMAIN ListedNames} = RegisteredNames

(* C24: after any sequence of registrations the tool list and the handler *)
(* table agree: every name occurs exactly once in the list, and the names *)
(* listed are exactly the names handle_tool_call accepts.                 *)
C24_ListAndHandlersAgree ==
    server \in {"custom", "legacy"} => ListedOnce /\ ListedAreAccepted

----------------------------------------------------------------------------
(* Properties of the tool functions of mcp_server.py, under SpecFastMCP *)

(* The last operation was a find call that returned, and its search yielded *)
(* entries                                                                  *)
FindFoundEntries ==
    /\ server \in {"legacy", "fastmcp"}
    /\ outcome.op = "call"
    /\ outcome.kind = "return"
    /\ outcome.name \in {"qdrant-find-memories", "qdrant-find"}
    /\ FoundByLastCall # <<>>

(* A header item: it carries the query *)
IsHeader(item, query) ==
    /\ item.kind \in {"Results for the query", "Memories for the query"}
    /\ item.text = query

(* The content as a find result shows it: its first 200 characters and *)
(* "..." when it is longer than that                                   *)
ShownByFind(content) ==
    IF TextLen(content) > TruncateAt THEN "long[:200]..." ELSE content

(* The result has a header with the query and then one item per entry, in *)
(* the order of the search, item i showing the content of entry i as      *)
(* shown(content)                                                         *)
HeaderThenEntries(out, entries, query, shown) ==
    /\ Len(out.content) = Len(entries) + 1
    /\ IsHeader(out.content[1], query)
    /\ \A i \in DOMAIN entries : out.content[i + 1].text = shown[entries[i].content]

C13_BootNeedsExactlyOneLocation ==
    ~ExactlyOneLocation(qdrant_settings.location, qdrant_settings.local_path)
    => /\ collaborators = {}
       /\ tools = <<>>
       /\ outcome.op \in {"main", "construct"} => outcome.kind = "raise"

----------------------------------------------------------------------------
(* Properties of setup_tools (mcp_server.py), under SpecFastMCP *)

Constructed == server = "fastmcp" /\ tools # <<>>
Registrations(name) == {i \in DOMAIN tools : tools[i].name = name}

(* The tool families that come in a collection-bound and a parameterized *)
(* variant, and the functions of each                                    *)
FamilyFns(name) ==
    CASE name = "qdrant-find" -> {"find", "find_with_default_collection"}
      [] name = "qdrant-store" -> {"store", "store_with_default_collection"}
      [] name = "qdrant-match" -> {"match", "match_with_default_collection"}

GatedFamilies ==
    {"qdrant-find", "qdrant-match"}
        \cup (IF qdrant_settings.read_only THEN {} ELSE {"qdrant-store"})

(* C1: in every configuration, each of qdrant-find and qdrant-match, and      *)
(* qdrant-store unless read_only, is registered exactly once, with a function *)
(* of its family; that function has no collection_name parameter when a       *)
(* collection name is configured (a non-empty name: the code tests the        *)
(* truthiness of collection_name) and has one when none is configured. Never  *)
(* both variants and never neither.                                           *)
C1_VariantGating ==
    Constructed =>
        \A name \in GatedFamilies :
            /\ Cardinality(Registrations(name)) = 1
            /\ \A i \in Registrations(name) :
                  /\ tools[i].fn \in FamilyFns(name)
                  /\ HasParam(tools[i].fn, "collection_name")
                        <=> ~Truthy(qdrant_settings.collection_name)

C1_Witness ==
    /\ Constructed
    /\ qdrant_settings.collection_name = "X"
    /\ ~qdrant_settings.read_only
    /\ \E i \in DOMAIN tools : tools[i] = Tool("qdrant-store", "store_with_default_collection")
    /\ \E i \in DOMAIN tools : tools[i] = Tool("qdrant-match", "match_with_default_collection")

(* C2: when read_only is true no mutating tool is registered, whether or not *)
(* a collection name is configured: no tool is named qdrant-store and no     *)
(* registered function is one of the two store functions.                    *)
C2_ReadOnlyNoStore ==
    (Constructed /\ qdrant_settings.read_only) =>
        \A i \in DOMAIN tools :
            /\ tools[i].name # "qdrant-store"
            /\ tools[i].fn \notin FamilyFns("qdrant-store")

C2_Witness ==
    /\ Constructed
    /\ qdrant_settings.read_only
    /\ qdrant_settings.collection_name = "X"
    /\ Len(tools) = 4

(* C3: qdrant-list-collections and qdrant-collection-info are each registered *)
(* exactly once in every configuration.                                       *)
C3_ManagementToolsAlways ==
    Constructed =>
        /\ Cardinality(Registrations("qdrant-list-collections")) = 1
        /\ Cardinality(Registrations("qdrant-collection-info")) = 1

C3_Witness ==
    /\ Constructed
    /\ qdrant_settings.read_only
    /\ qdrant_settings.collection_name = None
    /\ Registrations("qdrant-collection-info") # {}

(* The content of an entry as format_entry is to show it *)
Shown(content, truncate) ==
    IF truncate /\ TextLen(content) > 200
    THEN FirstChars(content, 200) \o "..."
    ELSE content

(* C20: format_entry with truncate=True cuts content longer than 200        *)
(* characters to its first 200 characters followed by "..." and leaves      *)
(* content of 200 characters or fewer unchanged; with truncate=False it     *)
(* never alters content. The items of a qdrant-find result are its entries  *)
(* formatted with truncation, those of a qdrant-match result its entries    *)
(* formatted without.                                                       *)
C20_TruncationAtTwoHundred ==
    /\ \A c \in Contents, m \in Metadatas, t \in BOOLEAN :
          FormatEntry(Entry(c, m), t).text = Shown(c, t)
    /\ (outcome.op = "call" /\ outcome.name \in {"qdrant-find", "qdrant-match"}
          /\ outcome.entries # <<>>)
       => /\ Len(outcome.content) = Len(outcome.entries) + 1
          /\ \A i \in DOMAIN outcome.entries :
                outcome.content[i + 1].text =
                    Shown(outcome.entries[i].content, outcome.name = "qdrant-find")

C20_Witness ==
    /\ outcome.name = "qdrant-match"
    /\ Len(outcome.content) = 3
    /\ outcome.content[2].text = LongText
    /\ outcome.content[3].text = EdgeText
    /\ TextLen(LongText) > 200

(* The required parameters the specification gives for each tool *)
StatedRequired(name) ==
    CASE name = "qdrant-find" -> {"query"}
      [] name = "qdrant-store" -> {"information"}
      [] name = "qdrant-match" -> {"metadata"}
      [] name = "qdrant-list-collections" -> {}
      [] name = "qdrant-collection-info" -> {"collection_name"}

(* C17: in every configuration, the parameters a registered tool requires   *)
(* are exactly query for qdrant-find, information for qdrant-store,         *)
(* metadata for qdrant-match, none for qdrant-list-collections and          *)
(* collection_name for qdrant-collection-info: collection_name of find,     *)
(* store and match, where they have it, and metadata of store are optional. *)
C17_RequiredParameters ==
    Constructed =>
        \A i \in DOMAIN tools :
            HandlerRequired(tools[i].fn) = StatedRequired(tools[i].name)

(* The tools that work on a collection *)
CollectionTools == {"qdrant-find", "qdrant-store", "qdrant-match"}

(* C21: with collection_name configured as X, every operation a call of     *)
(* qdrant-find, qdrant-store or qdrant-match issues on the vector store      *)
(* names the collection X, whatever collection_name, text or metadata the    *)
(* request carried: the call issues at least one operation, none names      *)
(* another collection, and no other collection comes to exist in the store. *)
C21_BoundToolsTargetConfiguredCollection ==
    (/\ server = "fastmcp"
     /\ Truthy(qdrant_settings.collection_name)
     /\ outcome.op = "call"
     /\ outcome.name \in CollectionTools)
    => /\ outcome.issued # <<>>
       /\ \A i \in DOMAIN outcome.issued :
             outcome.issued[i].collection = qdrant_settings.collection_name
       /\ DOMAIN collections \subseteq {qdrant_settings.collection_name}

(* A request for collection Y reached the bound store, which created X and *)
(* stored the point there                                                  *)
C21_Witness ==
    /\ qdrant_settings.collection_name = "X"
    /\ outcome.name = "qdrant-store"
    /\ outcome.invoked = "store_with_default_collection"
    /\ outcome.supplied = "Y"
    /\ outcome.issued = <<Operation("collection_exists", "X"),
                          Operation("create_collection", "X"),
                          Operation("upsert", "X")>>
    /\ DOMAIN collections = {"X"}
    /\ Len(collections["X"]) = 1

----------------------------------------------------------------------------
(* Properties of the connector (qdrant.py) under the tool calls in flight, *)
(* under SpecCalls                                                         *)

(* C14: a search on a collection that does not exist returns the empty list *)
(* and not an error, and leaves the store unchanged: the collection still   *)
(* does not exist after the search has returned.                            *)
C14_SearchOnAbsentCollection ==
    [][\A call \in InFlightCalls :
          (/\ AwaitCollectionExists(call)
           /\ call.name = "qdrant-find"
           /\ call.collection \notin DOMAIN collections)
          => /\ outcome'.kind = "return"
             /\ outcome'.entries = <<>>
             /\ collections' = collections
             /\ call.collection \notin DOMAIN collections']_vars

C14_Witness ==
    /\ outcome.name = "qdrant-find"
    /\ outcome.kind = "return"
    /\ outcome.entries = <<>>
    /\ Len(outcome.content) = 1
    /\ "X" \notin DOMAIN collections
    /\ \E call \in InFlightCalls : call.name = "qdrant-store"

(* C15: the upsert of a store call is issued only after the call has seen   *)
(* the collection exist or has created it, the collection exists when the   *)
(* upsert is issued, and it exists when the store call has completed, also  *)
(* when it did not exist as the call began.                                 *)
C15_StoreCreatesThenUpserts ==
    [][\A call \in InFlightCalls :
          AwaitUpsert(call)
          => /\ call.exists \/ call.created
             /\ call.collection \in DOMAIN collections
             /\ call.collection \in DOMAIN collections'
             /\ outcome'.kind = "return"]_vars

(* A store call that found no collection has created it and now awaits its *)
(* upsert                                                                  *)
C15_Witness ==
    \E call \in InFlightCalls :
        /\ call.pc = "upsert"
        /\ call.created
        /\ ~call.exists
        /\ call.collection \in DOMAIN collections

(* The entry a point of the store holds *)
EntryOf(point) == Entry(point.document, point.metadata)

(* C16: store and search round-trip entries. A completed store has added a  *)
(* point that holds the content and the metadata of the entry it was given, *)
(* None included; every entry a search returns is the entry of a point of   *)
(* that collection, and with exactly one point in the collection a search   *)
(* returns exactly that entry.                                              *)
C16_StoreSearchRoundTrip ==
    [][\A call \in InFlightCalls :
          /\ (AwaitUpsert(call) /\ outcome'.kind = "return")
              => LET before == collections[call.collection]
                     after == collections'[call.collection]
                 IN  /\ Len(after) = Len(before) + 1
                     /\ SubSeq(after, 1, Len(before)) = before
                     /\ EntryOf(after[Len(after)]) =
                           Entry(call.arguments.map["information"],
                                 call.arguments.map["metadata"])
          /\ AwaitSearch(call)
              => LET points == collections[call.collection]
                 IN  /\ \A i \in DOMAIN outcome'.entries :
                           \E j \in DOMAIN points :
                               outcome'.entries[i] = EntryOf(points[j])
                     /\ Len(points) = 1
                           => outcome'.entries = <<EntryOf(points[1])>>]_vars

C16_Witness ==
    /\ outcome.name = "qdrant-find"
    /\ outcome.kind = "return"
    /\ outcome.entries = <<Entry(LongText, None)>>
    /\ "X" \in DOMAIN collections
    /\ Len(collections["X"]) = 1
    /\ collections["X"][1].metadata = None

(* A store call completes in this step: its upsert answers and store returns *)
StoreCompletes ==
    \E call \in InFlightCalls :
        /\ call.name = "qdrant-store"
        /\ AwaitUpsert(call)
        /\ outcome'.kind = "return"

(* C22: a completed store adds exactly one point and replaces none. Every   *)
(* step in which a store call completes makes the store one point larger,   *)
(* no other step changes the number of points, and every step keeps each    *)
(* point there was, in its place; so from an empty store a collection holds *)
(* as many points as store calls have completed on it, equal contents       *)
(* included.                                                                *)
C22_EachStoreAddsOnePoint ==
    [][/\ TotalPoints(collections') =
             TotalPoints(collections) + (IF StoreCompletes THEN 1 ELSE 0)
       /\ \A c \in DOMAIN collections :
             /\ c \in DOMAIN collections'
             /\ Len(collections'[c]) >= Len(collections[c])
             /\ SubSeq(collections'[c], 1, Len(collections[c])) = collections[c]]_vars

(* Two stores of the same content and metadata have completed: two points *)
C22_Witness ==
    /\ outcome.name = "qdrant-store"
    /\ outcome.kind = "return"
    /\ calls = NoCalls
    /\ "X" \in DOMAIN collections
    /\ Len(collections["X"]) = 2
    /\ collections["X"][1] = collections["X"][2]

(* C23: under any interleaving of store calls on a collection that does not *)
(* exist yet, create_collection is issued at most once for it: no call      *)
(* issues create_collection for a collection that exists by then, whether   *)
(* another call has created it or it was there before.                      *)
C23_CreateIssuedAtMostOnce ==
    [][\A call \in InFlightCalls :
          AwaitCreateCollection(call)
          => call.collection \notin DOMAIN collections]_vars

(* C18: when a call in flight is cancelled while it is suspended on an      *)
(* await of a collaborator, CancelledError is raised at that await and      *)
(* leaves the call: no result is built for the call, no content item and no *)
(* entry is emitted, the call is no longer in flight and the operation it   *)
(* was waiting for has no effect on the store.                              *)
C18_CancellationPropagates ==
    [][\A call \in InFlightCalls :
          Cancel(call)
          => /\ outcome'.kind = "raise"
             /\ outcome'.error = "CancelledError"
             /\ outcome'.message = <<call.pc>>
             /\ outcome'.content = <<>>
             /\ outcome'.entries = <<>>
             /\ BagCardinality(calls') = BagCardinality(calls) - 1
             /\ collections' = collections]_vars

C18_Witness ==
    /\ outcome.name = "qdrant-store"
    /\ outcome.error = "CancelledError"
    /\ outcome.message = <<"upsert">>
    /\ outcome.content = <<>>
    /\ "X" \in DOMAIN collections
    /\ collections["X"] = <<>>
    /\ calls = NoCalls

====
